---------------------------- MODULE Spec2Model ----------------------------
(***************************************************************************)
(* A model of the Terrapane character utilities library (Terra::CharUtil): *)
(* IsUTF8Valid, ConvertUTF8ToUTF16 and ConvertUTF16ToUTF8.                  *)
(*                                                                         *)
(* Each of the three functions is modelled twice from the same per-        *)
(* iteration step operators: as a state machine that takes one loop        *)
(* iteration per step (for the properties about prefixes of the input),    *)
(* and as an operator that folds the steps over the whole input (for the   *)
(* properties that relate the result of one function to another).          *)
(***************************************************************************)
EXTENDS Integers, Sequences, FiniteSets, TLC

VARIABLES
    fn,                         \* the function being called
    input,                      \* the span "in" / "octets"
    out_size,                   \* out.size(), the capacity of the output span
    le_arg,                     \* the little_endian argument as the caller gave it
    little_endian,              \* the little_endian parameter (a local copy)
    pc,                         \* "call", "loop" or "return"
    pos,                        \* octets of the input consumed so far
    expected_utf8_remaining,    \* local of the UTF-8 decoders
    wide_character,             \* local of the UTF-8 decoders
    out,                        \* the octets written through the output iterator
    result,                     \* the returned pair, once pc = "return"
    size_bits,                  \* sizeof(std::size_t) * CHAR_BIT
    input_size,                 \* in.size()
    buffer,                     \* the octets of the span "out"
    calls                       \* the calls in progress at once, each with its own
                                \* spans and locals

vars == <<fn, input, out_size, le_arg, little_endian, pc, pos,
          expected_utf8_remaining, wide_character, out, result,
          size_bits, input_size, buffer, calls>>

---------------------------------------------------------------------------
(* Bounds of the model                                                     *)

\* longest UTF-8 input, in octets
MaxLen8 == 4

\* longest UTF-16 input, in code units
MaxUnits16 == 3

---------------------------------------------------------------------------
(* unicode_constants.h                                                     *)

Maximum_Character_Value == 1114111

Maximum_BMP_Value == 65535

Surrogate_High_Min == 55296

Surrogate_High_Max == 56319

Surrogate_Low_Min == 56320

Surrogate_Low_Max == 57343

Lead_Offset == 55296 - (65536 \div 1024)

\* Surrogate_Offset = 0xfca0'2400, kept as its two 16-bit halves: the value
\* is a uint32_t above 2^31
Surrogate_Offset_Hi == 64672

Surrogate_Offset_Lo == 9216

---------------------------------------------------------------------------
(* Integer operators of the source                                         *)

Pow2(n) == 2 ^ n

\* x & y, bit by bit
RECURSIVE BitAndOf(_, _)
BitAndOf(x, y) ==
    IF x = 0 \/ y = 0 THEN 0
    ELSE ((x % 2) * (y % 2)) + 2 * BitAndOf(x \div 2, y \div 2)

\* the masks the source applies to an octet, and octet & mask for each of
\* them, computed once
OctetMasks == {1, 7, 15, 31, 63, 127, 192, 224, 240, 248, 255}

OctetAnd == [x \in 0..255 |-> [y \in OctetMasks |-> BitAndOf(x, y)]]

\* x & y
BitAnd(x, y) ==
    IF x <= 255 /\ y \in OctetMasks THEN OctetAnd[x][y] ELSE BitAndOf(x, y)

\* x | y
RECURSIVE BitOr(_, _)
BitOr(x, y) ==
    IF x = 0 THEN y
    ELSE IF y = 0 THEN x
    ELSE (IF (x % 2) + (y % 2) > 0 THEN 1 ELSE 0) + 2 * BitOr(x \div 2, y \div 2)

\* x << n, for values that stay below 2^31
ShiftLeft(x, n) == x * Pow2(n)

\* x >> n
ShiftRight(x, n) == x \div Pow2(n)

\* static_cast<std::uint16_t>(x)
ToUint16(x) == x % 65536

\* static_cast<std::uint8_t>(x)
ToUint8(x) == x % 256

\* a sum with Surrogate_Offset that loses the carry out of the low half
AddSurrogateOffsetNoCarry(x) ==
    LET lo == (x % 65536) + Surrogate_Offset_Lo
        hi == (x \div 65536) + Surrogate_Offset_Hi
    IN  ((hi % 65536) * 65536) + (lo % 65536)

\* (x + Surrogate_Offset) mod 2^32 for a uint32_t x below 2^31, computed on
\* 16-bit halves
AddSurrogateOffset(x) ==
    LET lo == (x % 65536) + Surrogate_Offset_Lo
        hi == (x \div 65536) + Surrogate_Offset_Hi + (lo \div 65536)
    IN  ((hi % 65536) * 65536) + (lo % 65536)

---------------------------------------------------------------------------
(* The returned pairs                                                      *)

\* return {false, 0}
ReturnFalse == [ok |-> FALSE, length |-> 0]

\* return {true, n}
ReturnTrue(n) == [ok |-> TRUE, length |-> n]

NoResult == [ok |-> FALSE, length |-> 0]

---------------------------------------------------------------------------
(* IsUTF8Valid: is_valid_utf8.cpp                                          *)

\* the locals of IsUTF8Valid before the first octet
IsUTF8ValidLocals ==
    [expected_utf8_remaining |-> 0, wide_character |-> 0, failed |-> FALSE]

\* "Invalid octet values": the two tests at the top of the loop body
InvalidOctetValue(octet) == (octet = 192) \/ (octet = 193) \/ (octet >= 245)

\* (octet & 0xc0) != 0x80: the octet is not a 10xxxxxx octet
NotContinuation(octet) == BitAnd(octet, 192) # 128

\* wide_character = (wide_character << 6) | (octet & 0x3f)
AppendBits(wc, octet) == BitOr(ShiftLeft(wc, 6), BitAnd(octet, 63))

\* a test against the largest value four octets can hold, 0x1FFFFF
AboveMaximumOfFourOctets(wc) == wc > 2097151

\* wide_character > Unicode::Maximum_Character_Value
AboveMaximum(wc) == wc > Maximum_Character_Value

\* a surrogate range test that ends at the last high surrogate
InSurrogateRangeHighOnly(wc) ==
    (wc >= Surrogate_High_Min) /\ (wc <= Surrogate_High_Max)

\* the character code is within the surrogate range
InSurrogateRange(wc) == (wc >= Surrogate_High_Min) /\ (wc <= Surrogate_Low_Max)

\* lead-octet tests of which the last one looks at four bits only
LeadRemainingFourBits(octet) ==
    IF BitAnd(octet, 224) = 192 THEN 1
    ELSE IF BitAnd(octet, 240) = 224 THEN 2
    ELSE IF BitAnd(octet, 240) = 240 THEN 3
    ELSE 0

\* the three lead-octet tests, in the order of the source: the number of
\* octets that must follow the lead octet, 0 when no test matches
LeadRemaining(octet) ==
    IF BitAnd(octet, 224) = 192 THEN 1
    ELSE IF BitAnd(octet, 240) = 224 THEN 2
    ELSE IF BitAnd(octet, 248) = 240 THEN 3
    ELSE 0

\* the bits of the lead octet that start wide_character
LeadBits(octet) ==
    IF BitAnd(octet, 224) = 192 THEN BitAnd(octet, 63)
    ELSE IF BitAnd(octet, 240) = 224 THEN BitAnd(octet, 15)
    ELSE BitAnd(octet, 7)

\* one iteration of the loop of IsUTF8Valid; failed is "return false"
IsUTF8ValidOctet(st, octet) ==
    IF InvalidOctetValue(octet) THEN [st EXCEPT !.failed = TRUE]
    ELSE IF st.expected_utf8_remaining > 0 THEN
        IF NotContinuation(octet) THEN [st EXCEPT !.failed = TRUE]
        ELSE
            LET wc  == AppendBits(st.wide_character, octet)
                rem == st.expected_utf8_remaining - 1
            IN  [expected_utf8_remaining |-> rem,
                 wide_character |-> wc,
                 failed |-> (rem = 0) /\ (AboveMaximum(wc) \/ InSurrogateRange(wc))]
    ELSE IF octet <= 127 THEN st
    ELSE IF LeadRemaining(octet) > 0 THEN
        [expected_utf8_remaining |-> LeadRemaining(octet),
         wide_character |-> LeadBits(octet),
         failed |-> FALSE]
    ELSE [st EXCEPT !.failed = TRUE]

\* the value returned after the loop
IsUTF8ValidReturn(st) == st.expected_utf8_remaining = 0

\* the loop over the octets from index k on
RECURSIVE IsUTF8ValidLoop(_, _, _)
IsUTF8ValidLoop(octets, k, st) ==
    IF st.failed \/ k > Len(octets) THEN st
    ELSE IsUTF8ValidLoop(octets, k + 1, IsUTF8ValidOctet(st, octets[k]))

\* bool IsUTF8Valid(std::span<const std::uint8_t> octets)
IsUTF8Valid(octets) ==
    IF octets = <<>> THEN TRUE
    ELSE
        LET st == IsUTF8ValidLoop(octets, 1, IsUTF8ValidLocals)
        IN  IF st.failed THEN FALSE ELSE IsUTF8ValidReturn(st)

---------------------------------------------------------------------------
(* ConvertUTF8ToUTF16: utf8_to_utf16.cpp                                   *)

\* InsertUTF16LE(character, buffer): the two octets stored
InsertUTF16LE(character) ==
    << ToUint8(BitAnd(character, 255)),
       ToUint8(BitAnd(ShiftRight(character, 8), 255)) >>

\* a big-endian store that puts the low octet first
InsertUTF16BELowFirst(character) ==
    << ToUint8(BitAnd(character, 255)),
       ToUint8(BitAnd(ShiftRight(character, 8), 255)) >>

\* InsertUTF16BE(character, buffer): the two octets stored
InsertUTF16BE(character) ==
    << ToUint8(BitAnd(ShiftRight(character, 8), 255)),
       ToUint8(BitAnd(character, 255)) >>

\* if (little_endian) InsertUTF16LE(...) else InsertUTF16BE(...)
InsertUTF16(character, le) ==
    IF le THEN InsertUTF16LE(character) ELSE InsertUTF16BE(character)

\* a high surrogate computed from Surrogate_High_Min, the 0x10000 of the
\* planes above the BMP not taken off
HighSurrogateNoLeadOffset(wc) == ToUint16(Surrogate_High_Min + ShiftRight(wc, 10))

\* high_surrogate of a character above the BMP
HighSurrogate(wc) == ToUint16(Lead_Offset + ShiftRight(wc, 10))

\* a low surrogate taken from nine bits of the character
LowSurrogateNineBits(wc) == ToUint16(Surrogate_Low_Min + BitAnd(wc, 511))

\* low_surrogate of a character above the BMP
LowSurrogate(wc) == ToUint16(Surrogate_Low_Min + BitAnd(wc, 1023))

\* the octets written for a complete character: a surrogate pair above the
\* BMP, one code unit otherwise
EmitUTF16(wc, le) ==
    IF wc > Maximum_BMP_Value
    THEN InsertUTF16(HighSurrogate(wc), le) \o InsertUTF16(LowSurrogate(wc), le)
    ELSE InsertUTF16(ToUint16(wc), le)

\* a capacity test that takes one output octet per input octet
OutputTooSmall16Single(size, in_size) == size < in_size

\* a capacity test that refuses the least capacity as well
OutputTooSmall16Strict(size, in_size) == size <= (in_size * 2)

\* out.size() < (in.size() * 2)
OutputTooSmall16(size, in_size) == size < (in_size * 2)

\* the locals of ConvertUTF8ToUTF16 before the first octet
ConvertUTF8ToUTF16Locals ==
    [expected_utf8_remaining |-> 0, wide_character |-> 0, out |-> <<>>,
     failed |-> FALSE]

\* one iteration of the loop of ConvertUTF8ToUTF16; failed is
\* "return {false, 0}"
ConvertUTF8ToUTF16Octet(st, octet, le) ==
    IF st.expected_utf8_remaining > 0 THEN
        IF NotContinuation(octet) THEN [st EXCEPT !.failed = TRUE]
        ELSE
            LET wc  == AppendBits(st.wide_character, octet)
                rem == st.expected_utf8_remaining - 1
                bad == (rem = 0) /\ (AboveMaximum(wc) \/ InSurrogateRange(wc))
            IN  [expected_utf8_remaining |-> rem,
                 wide_character |-> wc,
                 out |-> IF rem = 0 /\ ~bad
                         THEN st.out \o EmitUTF16(wc, le)
                         ELSE st.out,
                 failed |-> bad]
    ELSE IF octet <= 127 THEN
        [st EXCEPT !.out = st.out \o InsertUTF16(octet, le)]
    ELSE IF LeadRemaining(octet) > 0 THEN
        [st EXCEPT !.expected_utf8_remaining = LeadRemaining(octet),
                   !.wide_character = LeadBits(octet)]
    ELSE [st EXCEPT !.failed = TRUE]

\* a return after the loop that reports the octets written when the input
\* ends inside a sequence
ConvertUTF8ToUTF16ReturnWritten(st) ==
    IF st.expected_utf8_remaining > 0
    THEN [ok |-> FALSE, length |-> Len(st.out)]
    ELSE ReturnTrue(Len(st.out))

\* a return after the loop without the test of expected_utf8_remaining
ConvertUTF8ToUTF16ReturnUntested(st) == ReturnTrue(Len(st.out))

\* the pair returned after the loop
ConvertUTF8ToUTF16Return(st) ==
    IF st.expected_utf8_remaining > 0 THEN ReturnFalse
    ELSE ReturnTrue(Len(st.out))

\* the loop over the octets from index k on
RECURSIVE ConvertUTF8ToUTF16Loop(_, _, _, _)
ConvertUTF8ToUTF16Loop(in, k, st, le) ==
    IF st.failed \/ k > Len(in) THEN st
    ELSE ConvertUTF8ToUTF16Loop(in, k + 1,
                                ConvertUTF8ToUTF16Octet(st, in[k], le), le)

\* std::pair<bool, std::size_t> ConvertUTF8ToUTF16(in, out, little_endian),
\* with the octets written to out
ConvertUTF8ToUTF16(in, size, le) ==
    IF in = <<>> THEN [ret |-> ReturnTrue(0), out |-> <<>>]
    ELSE IF OutputTooSmall16(size, Len(in)) THEN [ret |-> ReturnFalse, out |-> <<>>]
    ELSE
        LET st == ConvertUTF8ToUTF16Loop(in, 1, ConvertUTF8ToUTF16Locals, le)
        IN  [ret |-> IF st.failed THEN ReturnFalse ELSE ConvertUTF8ToUTF16Return(st),
             out |-> st.out]

---------------------------------------------------------------------------
(* ConvertUTF16ToUTF8: utf16_to_utf8.cpp                                   *)

\* ExtractUTF16LE(buffer), the buffer being in[p], in[p + 1] (p counts from 0)
ExtractUTF16LE(in, p) == BitOr(ShiftLeft(in[p + 2], 8), in[p + 1])

\* ExtractUTF16BE(buffer)
ExtractUTF16BE(in, p) == BitOr(ShiftLeft(in[p + 1], 8), in[p + 2])

\* if (little_endian) ExtractUTF16LE(...) else ExtractUTF16BE(...)
ExtractUTF16(in, p, le) ==
    IF le THEN ExtractUTF16LE(in, p) ELSE ExtractUTF16BE(in, p)

\* a limit that is the largest value of the size type
Max_UTF16_StringUnlimited(w) == Pow2(w) - 1

\* Max_UTF16_String of character_utilities.h for a size type of w bits
Max_UTF16_String(w) ==
    BitOr(ShiftLeft(ShiftLeft(ShiftRight(Pow2(w) - 1, w \div 2), 1) \div 3, w \div 2),
          ShiftLeft(ShiftRight(Pow2(w) - 1, w \div 2), 1) \div 3)

\* the width of std::size_t taken for the model; the inputs of the model are
\* far shorter than Max_UTF16_String at any width from 8 bits on
SizeBits == 16

\* a test of the second bit of the length for the first
OddLengthSecondBit(in_size) == BitAnd(in_size, 2) # 0

\* (in.size() & 1) != 0
OddLength(in_size) == BitAnd(in_size, 1) # 0

\* in.size() > Max_UTF16_String
TooLong(in_size) == in_size > Max_UTF16_String(SizeBits)

\* a capacity test that takes one output octet per input octet
OutputTooSmall8Single(size, in_size) == size < in_size

\* out.size() < (in.size() + (in.size() >> 1))
OutputTooSmall8(size, in_size) == size < (in_size + ShiftRight(in_size, 1))

\* a check for a BOM that takes an input of one code unit as well
DetectBOMAnyLength(in, le) ==
    IF Len(in) >= 2 THEN
        IF (in[1] = 254) /\ (in[2] = 255) THEN FALSE
        ELSE IF (in[1] = 255) /\ (in[2] = 254) THEN TRUE
        ELSE le
    ELSE le

\* the check for a BOM at the start of the string: the value of
\* little_endian after it
DetectBOM(in, le) ==
    IF Len(in) >= 4 THEN
        IF (in[1] = 254) /\ (in[2] = 255) THEN FALSE
        ELSE IF (in[1] = 255) /\ (in[2] = 254) THEN TRUE
        ELSE le
    ELSE le

\* a test of the low surrogate range that never holds
InLowSurrogateRangeNever(c) == FALSE

\* the character code is in the low surrogate range
InLowSurrogateRange(c) == (c >= Surrogate_Low_Min) /\ (c <= Surrogate_Low_Max)

\* character = (character << 10) + low_surrogate + Unicode::Surrogate_Offset
CombineSurrogates(character, low_surrogate) ==
    AddSurrogateOffset(ShiftLeft(character, 10) + low_surrogate)

\* encoding branches of which the first takes every value of one octet
EncodeUTF8OneOctetTo255(character) ==
    IF character <= 255 THEN
        << ToUint8(BitAnd(character, 255)) >>
    ELSE IF character <= 2047 THEN
        << ToUint8(BitOr(192, BitAnd(ShiftRight(character, 6), 31))),
           ToUint8(BitOr(128, BitAnd(character, 63))) >>
    ELSE IF character <= 65535 THEN
        << ToUint8(BitOr(224, BitAnd(ShiftRight(character, 12), 15))),
           ToUint8(BitOr(128, BitAnd(ShiftRight(character, 6), 63))),
           ToUint8(BitOr(128, BitAnd(character, 63))) >>
    ELSE IF character <= 1114111 THEN
        << ToUint8(BitOr(240, BitAnd(ShiftRight(character, 18), 7))),
           ToUint8(BitOr(128, BitAnd(ShiftRight(character, 12), 63))),
           ToUint8(BitOr(128, BitAnd(ShiftRight(character, 6), 63))),
           ToUint8(BitOr(128, BitAnd(character, 63))) >>
    ELSE << >>

\* the four encoding branches: the octets written for a character, and none
\* when no branch takes it
EncodeUTF8(character) ==
    IF character <= 127 THEN
        << ToUint8(BitAnd(character, 127)) >>
    ELSE IF character <= 2047 THEN
        << ToUint8(BitOr(192, BitAnd(ShiftRight(character, 6), 31))),
           ToUint8(BitOr(128, BitAnd(character, 63))) >>
    ELSE IF character <= 65535 THEN
        << ToUint8(BitOr(224, BitAnd(ShiftRight(character, 12), 15))),
           ToUint8(BitOr(128, BitAnd(ShiftRight(character, 6), 63))),
           ToUint8(BitOr(128, BitAnd(character, 63))) >>
    ELSE IF character <= 1114111 THEN
        << ToUint8(BitOr(240, BitAnd(ShiftRight(character, 18), 7))),
           ToUint8(BitOr(128, BitAnd(ShiftRight(character, 12), 63))),
           ToUint8(BitOr(128, BitAnd(ShiftRight(character, 6), 63))),
           ToUint8(BitOr(128, BitAnd(character, 63))) >>
    ELSE << >>

\* the locals of ConvertUTF16ToUTF8 before the first code unit: p as an
\* offset from in.begin(), and the octets written through r
ConvertUTF16ToUTF8Locals == [p |-> 0, out |-> <<>>, failed |-> FALSE]

\* the end of an iteration: the character is encoded, or the function
\* returns {false, 0} after the four branches
EncodeStep(st, p, character) ==
    IF EncodeUTF8(character) = << >>
    THEN [p |-> p, out |-> st.out, failed |-> TRUE]
    ELSE [p |-> p, out |-> st.out \o EncodeUTF8(character), failed |-> FALSE]

\* one iteration of the loop of ConvertUTF16ToUTF8; failed is
\* "return {false, 0}"
ConvertUTF16ToUTF8Unit(in, st, le) ==
    LET character == ExtractUTF16(in, st.p, le)
        p1 == st.p + 2
    IN  IF InSurrogateRange(character) THEN
            IF InLowSurrogateRange(character) THEN
                [p |-> p1, out |-> st.out, failed |-> TRUE]
            ELSE IF p1 = Len(in) THEN
                [p |-> p1, out |-> st.out, failed |-> TRUE]
            ELSE
                LET low_surrogate == ExtractUTF16(in, p1, le)
                    p2 == p1 + 2
                IN  IF (low_surrogate < Surrogate_Low_Min) \/
                       (low_surrogate > Surrogate_Low_Max)
                    THEN [p |-> p2, out |-> st.out, failed |-> TRUE]
                    ELSE EncodeStep(st, p2,
                                    CombineSurrogates(character, low_surrogate))
        ELSE EncodeStep(st, p1, character)

\* the loop, while (p != q)
RECURSIVE ConvertUTF16ToUTF8Loop(_, _, _)
ConvertUTF16ToUTF8Loop(in, st, le) ==
    IF st.failed \/ st.p = Len(in) THEN st
    ELSE ConvertUTF16ToUTF8Loop(in, ConvertUTF16ToUTF8Unit(in, st, le), le)

\* the pair returned after the loop
ConvertUTF16ToUTF8Return(st) == ReturnTrue(Len(st.out))

\* the tests before the loop that return {false, 0}
ConvertUTF16ToUTF8Refused(in_size, size) ==
    OddLength(in_size) \/ TooLong(in_size) \/ OutputTooSmall8(size, in_size)

\* std::pair<bool, std::size_t> ConvertUTF16ToUTF8(in, out, little_endian),
\* with the octets written to out
ConvertUTF16ToUTF8(in, size, le) ==
    IF Len(in) = 0 THEN [ret |-> ReturnTrue(0), out |-> <<>>]
    ELSE IF ConvertUTF16ToUTF8Refused(Len(in), size)
    THEN [ret |-> ReturnFalse, out |-> <<>>]
    ELSE
        LET st == ConvertUTF16ToUTF8Loop(in, ConvertUTF16ToUTF8Locals,
                                         DetectBOM(in, le))
        IN  [ret |-> IF st.failed THEN ReturnFalse ELSE ConvertUTF16ToUTF8Return(st),
             out |-> st.out]

---------------------------------------------------------------------------
(* The inputs of the model                                                 *)

\* the octets UTF-8 inputs are built from, in two alphabets.  The first
\* holds 'A', the continuation octets 80, BE, BF and a lead octet of each
\* length: C0 (overlong), C2, E0, EF, F0.  The second holds the octets at
\* the limits of the ranges: the continuation octets 80, 8F, 90, 9F, A0, BF
\* and the lead octets ED, F4, F5
OctetsForms == {65, 128, 190, 191, 192, 194, 224, 239, 240}

OctetsLimits == {128, 143, 144, 159, 160, 191, 237, 244, 245}

\* the octets no UTF-8 sequence holds, F5, F7, F8 and FF, with 'A' and the
\* continuation octets 80 and BF
OctetsInvalid == {65, 128, 191, 245, 247, 248, 255}

\* the octets of U+FEFF, EF BB BF, and of its encoding in four octets,
\* F0 8F BB BF, with 'A'
OctetsBOM == {65, 143, 187, 191, 239, 240}

Alphabets8 == {OctetsForms, OctetsLimits, OctetsInvalid, OctetsBOM}

\* the UTF-8 inputs: every sequence of at most MaxLen8 octets of one alphabet
IsInput8(in) ==
    \E n \in 0..MaxLen8 : \E A \in Alphabets8 : in \in [1..n -> A]

\* the octet pairs UTF-16 inputs are built from, each with its byte-swapped
\* twin: 0041, FEFF (the BOM), D800, DC00, DBFF, DFFF, 07FF read one way,
\* 4100, FFFE, 00D8, 00DC, FFDB, FFDF, FF07 read the other way
Units16 == { <<65, 0>>,    <<0, 65>>,
             <<255, 254>>, <<254, 255>>,
             <<0, 216>>,   <<216, 0>>,
             <<0, 220>>,   <<220, 0>>,
             <<255, 219>>, <<219, 255>>,
             <<255, 223>>, <<223, 255>>,
             <<255, 7>>,   <<7, 255>> }

\* the octets of a sequence of octet pairs
RECURSIVE Flatten(_)
Flatten(units) ==
    IF units = <<>> THEN <<>> ELSE Head(units) \o Flatten(Tail(units))

\* the octet left over at the end of an input of an odd length
OddTails(n) == IF n <= 1 THEN {<<>>, <<0>>, <<220>>} ELSE {<<>>}

\* the UTF-16 inputs: every sequence of at most MaxUnits16 octet pairs, and
\* the shortest of them with one more octet
IsInput16(in) ==
    \E n \in 0..MaxUnits16 : \E u \in [1..n -> Units16] :
        \E t \in OddTails(n) : in = Flatten(u) \o t

\* the output capacities tried for an input that needs "need" octets: the
\* least capacity the function takes and one octet less
Capacities(need) == {c \in {need - 1, need} : c >= 0}

---------------------------------------------------------------------------
(* The calls, one loop iteration per step                                  *)

\* a store that clears the octet after the ones it writes
StoreAndClearNext(buf, p, octets) ==
    [i \in DOMAIN buf |->
        IF (i > p) /\ (i <= p + Len(octets)) THEN octets[i - p]
        ELSE IF i = p + Len(octets) + 1 THEN 0
        ELSE buf[i]]

\* a store of octets through the output iterator that stands at offset p of
\* the span: *r++ = octet, or InsertUTF16LE / InsertUTF16BE on span{p, 2};
\* the octets of the span after the store
Store(buf, p, octets) ==
    [i \in DOMAIN buf |->
        IF (i > p) /\ (i <= p + Len(octets)) THEN octets[i - p] ELSE buf[i]]

Start ==
    /\ little_endian = le_arg
    /\ pc = "call"
    /\ pos = 0
    /\ expected_utf8_remaining = 0
    /\ wide_character = 0
    /\ out = <<>>
    /\ result = NoResult

\* a call of IsUTF8Valid or of ConvertUTF8ToUTF16
InitUTF8 ==
    /\ fn \in {"IsUTF8Valid", "ConvertUTF8ToUTF16"}
    /\ IsInput8(input)
    /\ size_bits = SizeBits
    /\ input_size = Len(input)
    /\ IF fn = "IsUTF8Valid"
       THEN out_size = 0 /\ le_arg = TRUE
       ELSE out_size \in Capacities(2 * Len(input)) /\ le_arg \in BOOLEAN
    /\ buffer = [i \in 1..out_size |-> 170]
    /\ calls = <<>>
    /\ Start

\* a call of ConvertUTF16ToUTF8
InitUTF16 ==
    /\ fn = "ConvertUTF16ToUTF8"
    /\ IsInput16(input)
    /\ size_bits = SizeBits
    /\ input_size = Len(input)
    /\ out_size \in Capacities(Len(input) + (Len(input) \div 2))
    /\ le_arg \in BOOLEAN
    /\ buffer = [i \in 1..out_size |-> 170]
    /\ calls = <<>>
    /\ Start

Return(r) ==
    /\ pc' = "return"
    /\ result' = r

\* IsUTF8Valid up to its loop
IsUTF8Valid_Call ==
    /\ fn = "IsUTF8Valid"
    /\ pc = "call"
    /\ IF input = <<>>
       THEN Return(ReturnTrue(0))
       ELSE pc' = "loop" /\ UNCHANGED result
    /\ UNCHANGED <<calls, buffer, size_bits, input_size, fn, input, out_size,
                   le_arg, little_endian, pos,
                   expected_utf8_remaining, wide_character, out>>

\* one iteration of the loop of IsUTF8Valid
IsUTF8Valid_Octet ==
    /\ fn = "IsUTF8Valid"
    /\ pc = "loop"
    /\ pos < Len(input)
    /\ LET st == IsUTF8ValidOctet(
                     [expected_utf8_remaining |-> expected_utf8_remaining,
                      wide_character |-> wide_character,
                      failed |-> FALSE], input[pos + 1])
       IN  /\ expected_utf8_remaining' = st.expected_utf8_remaining
           /\ wide_character' = st.wide_character
           /\ IF st.failed
              THEN Return(ReturnFalse)
              ELSE UNCHANGED <<pc, result>>
    /\ pos' = pos + 1
    /\ UNCHANGED <<calls, buffer, size_bits, input_size, fn, input, out_size,
                   le_arg, little_endian, out>>

\* the return of IsUTF8Valid after its loop
IsUTF8Valid_End ==
    /\ fn = "IsUTF8Valid"
    /\ pc = "loop"
    /\ pos = Len(input)
    /\ Return([ok |-> IsUTF8ValidReturn(
                          [expected_utf8_remaining |-> expected_utf8_remaining,
                           wide_character |-> wide_character,
                           failed |-> FALSE]),
               length |-> 0])
    /\ UNCHANGED <<calls, buffer, size_bits, input_size, fn, input, out_size,
                   le_arg, little_endian, pos,
                   expected_utf8_remaining, wide_character, out>>

\* an entry of ConvertUTF8ToUTF16 that takes an empty input for an error
ConvertUTF8ToUTF16_CallEmptyRefused ==
    /\ fn = "ConvertUTF8ToUTF16"
    /\ pc = "call"
    /\ IF input = <<>> THEN Return(ReturnFalse)
       ELSE IF OutputTooSmall16(out_size, Len(input)) THEN Return(ReturnFalse)
       ELSE pc' = "loop" /\ UNCHANGED result
    /\ UNCHANGED <<calls, buffer, size_bits, input_size, fn, input, out_size,
                   le_arg, little_endian, pos,
                   expected_utf8_remaining, wide_character, out>>

\* ConvertUTF8ToUTF16 up to its loop
ConvertUTF8ToUTF16_Call ==
    /\ fn = "ConvertUTF8ToUTF16"
    /\ pc = "call"
    /\ IF input = <<>> THEN Return(ReturnTrue(0))
       ELSE IF OutputTooSmall16(out_size, Len(input)) THEN Return(ReturnFalse)
       ELSE pc' = "loop" /\ UNCHANGED result
    /\ UNCHANGED <<calls, buffer, size_bits, input_size, fn, input, out_size,
                   le_arg, little_endian, pos,
                   expected_utf8_remaining, wide_character, out>>

\* one iteration of the loop of ConvertUTF8ToUTF16
ConvertUTF8ToUTF16_Octet ==
    /\ fn = "ConvertUTF8ToUTF16"
    /\ pc = "loop"
    /\ pos < Len(input)
    /\ LET st == ConvertUTF8ToUTF16Octet(
                     [expected_utf8_remaining |-> expected_utf8_remaining,
                      wide_character |-> wide_character,
                      out |-> out,
                      failed |-> FALSE], input[pos + 1], little_endian)
       IN  /\ expected_utf8_remaining' = st.expected_utf8_remaining
           /\ wide_character' = st.wide_character
           /\ out' = st.out
           /\ IF st.failed
              THEN Return(ReturnFalse)
              ELSE UNCHANGED <<pc, result>>
    /\ pos' = pos + 1
    /\ buffer' = Store(buffer, Len(out), SubSeq(out', Len(out) + 1, Len(out')))
    /\ UNCHANGED <<calls, size_bits, input_size, fn, input, out_size, le_arg,
                   little_endian>>

\* the return of ConvertUTF8ToUTF16 after its loop
ConvertUTF8ToUTF16_End ==
    /\ fn = "ConvertUTF8ToUTF16"
    /\ pc = "loop"
    /\ pos = Len(input)
    /\ Return(ConvertUTF8ToUTF16Return(
                  [expected_utf8_remaining |-> expected_utf8_remaining,
                   wide_character |-> wide_character,
                   out |-> out,
                   failed |-> FALSE]))
    /\ UNCHANGED <<calls, buffer, size_bits, input_size, fn, input, out_size,
                   le_arg, little_endian, pos,
                   expected_utf8_remaining, wide_character, out>>

\* ConvertUTF16ToUTF8 up to its loop: the tests of the sizes and the check
\* for a BOM
ConvertUTF16ToUTF8_Call ==
    /\ fn = "ConvertUTF16ToUTF8"
    /\ pc = "call"
    /\ IF Len(input) = 0
       THEN Return(ReturnTrue(0)) /\ UNCHANGED little_endian
       ELSE IF ConvertUTF16ToUTF8Refused(Len(input), out_size)
       THEN Return(ReturnFalse) /\ UNCHANGED little_endian
       ELSE /\ pc' = "loop"
            /\ little_endian' = DetectBOM(input, little_endian)
            /\ UNCHANGED result
    /\ UNCHANGED <<calls, buffer, size_bits, input_size, fn, input, out_size,
                   le_arg, pos,
                   expected_utf8_remaining, wide_character, out>>

\* one iteration of the loop of ConvertUTF16ToUTF8
ConvertUTF16ToUTF8_Unit ==
    /\ fn = "ConvertUTF16ToUTF8"
    /\ pc = "loop"
    /\ pos # Len(input)
    /\ LET st == ConvertUTF16ToUTF8Unit(
                     input, [p |-> pos, out |-> out, failed |-> FALSE],
                     little_endian)
       IN  /\ pos' = st.p
           /\ out' = st.out
           /\ IF st.failed
              THEN Return(ReturnFalse)
              ELSE UNCHANGED <<pc, result>>
    /\ buffer' = Store(buffer, Len(out), SubSeq(out', Len(out) + 1, Len(out')))
    /\ UNCHANGED <<calls, size_bits, input_size, fn, input, out_size, le_arg,
                   little_endian,
                   expected_utf8_remaining, wide_character>>

\* a loop of ConvertUTF16ToUTF8 of which the test fails two octets after the
\* end of the input only
ConvertUTF16ToUTF8_EndPastLength ==
    /\ fn = "ConvertUTF16ToUTF8"
    /\ pc = "loop"
    /\ pos = Len(input) + 2
    /\ Return(ConvertUTF16ToUTF8Return(
                  [p |-> pos, out |-> out, failed |-> FALSE]))
    /\ UNCHANGED <<calls, buffer, size_bits, input_size, fn, input, out_size,
                   le_arg, little_endian, pos,
                   expected_utf8_remaining, wide_character, out>>

\* the return of ConvertUTF16ToUTF8 after its loop
ConvertUTF16ToUTF8_End ==
    /\ fn = "ConvertUTF16ToUTF8"
    /\ pc = "loop"
    /\ pos = Len(input)
    /\ Return(ConvertUTF16ToUTF8Return(
                  [p |-> pos, out |-> out, failed |-> FALSE]))
    /\ UNCHANGED <<calls, buffer, size_bits, input_size, fn, input, out_size,
                   le_arg, little_endian, pos,
                   expected_utf8_remaining, wide_character, out>>

NextUTF8 ==
    \/ IsUTF8Valid_Call
    \/ IsUTF8Valid_Octet
    \/ IsUTF8Valid_End
    \/ ConvertUTF8ToUTF16_Call
    \/ ConvertUTF8ToUTF16_Octet
    \/ ConvertUTF8ToUTF16_End

NextUTF16 ==
    \/ ConvertUTF16ToUTF8_Call
    \/ ConvertUTF16ToUTF8_Unit
    \/ ConvertUTF16ToUTF8_End

\* the calls on UTF-8 input
SpecUTF8 == InitUTF8 /\ [][NextUTF8]_vars

\* the calls on UTF-16 input
SpecUTF16 == InitUTF16 /\ [][NextUTF16]_vars

Init == InitUTF8 \/ InitUTF16

Next == NextUTF8 \/ NextUTF16

\* every call
Spec == Init /\ [][Next]_vars

---------------------------------------------------------------------------
(* Well-formed input, as RFC 3629 and the Unicode standard define it,      *)
(* stated without the functions of the library                             *)

\* a continuation octet, 80..BF
IsTail(o) == o \in 128..191

\* RFC 3629 section 4 (UTF8-1 .. UTF8-4): the length of the well-formed
\* sequence of octets that starts at in[k], 0 when none starts there
WellFormedLength(in, k) ==
    LET n  == Len(in) - k + 1
        b1 == in[k]
    IN  IF b1 <= 127 THEN 1
        ELSE IF n >= 2 /\ b1 \in 194..223 /\ IsTail(in[k + 1]) THEN 2
        ELSE IF /\ n >= 3
                /\ IsTail(in[k + 2])
                /\ \/ b1 = 224 /\ in[k + 1] \in 160..191
                   \/ b1 \in 225..236 /\ IsTail(in[k + 1])
                   \/ b1 = 237 /\ in[k + 1] \in 128..159
                   \/ b1 \in 238..239 /\ IsTail(in[k + 1])
             THEN 3
        ELSE IF /\ n >= 4
                /\ IsTail(in[k + 2])
                /\ IsTail(in[k + 3])
                /\ \/ b1 = 240 /\ in[k + 1] \in 144..191
                   \/ b1 \in 241..243 /\ IsTail(in[k + 1])
                   \/ b1 = 244 /\ in[k + 1] \in 128..143
             THEN 4
        ELSE 0

RECURSIVE WellFormedFrom(_, _)
WellFormedFrom(in, k) ==
    \/ k > Len(in)
    \/ /\ WellFormedLength(in, k) > 0
       /\ WellFormedFrom(in, k + WellFormedLength(in, k))

\* the octets are well-formed UTF-8
WellFormedUTF8(in) == WellFormedFrom(in, 1)

\* the code unit stored at in[k], in[k + 1] in the given byte order
CodeUnit(in, k, le) ==
    IF le THEN in[k] + (256 * in[k + 1]) ELSE (256 * in[k]) + in[k + 1]

RECURSIVE PairedFrom(_, _, _)
PairedFrom(in, k, le) ==
    IF k > Len(in) THEN TRUE
    ELSE IF CodeUnit(in, k, le) \in 55296..56319 THEN
        /\ k + 3 <= Len(in)
        /\ CodeUnit(in, k + 2, le) \in 56320..57343
        /\ PairedFrom(in, k + 4, le)
    ELSE IF CodeUnit(in, k, le) \in 56320..57343 THEN FALSE
    ELSE PairedFrom(in, k + 2, le)

\* the octets are well-formed UTF-16 in the given byte order: whole code
\* units, every surrogate in a pair of a high and a low one
WellFormedUTF16(in, le) == (Len(in) % 2 = 0) /\ PairedFrom(in, 1, le)

\* the byte order a call of ConvertUTF16ToUTF8 is to decode with: that of a
\* BOM at the start of an input of at least 4 octets, else the argument
ByteOrderOf(in, le) ==
    IF Len(in) >= 4 /\ in[1] = 254 /\ in[2] = 255 THEN FALSE
    ELSE IF Len(in) >= 4 /\ in[1] = 255 /\ in[2] = 254 THEN TRUE
    ELSE le

\* the call has returned
Returned(f) == fn = f /\ pc = "return"

\* the loop of the call has been entered: the tests before it passed
\* (every iteration advances pos, and no return before the loop does)
InLoop(f) == fn = f /\ (pc = "loop" \/ (pc = "return" /\ pos > 0))

\* octets a begin the octets b
StartsWith(b, a) == Len(b) >= Len(a) /\ SubSeq(b, 1, Len(a)) = a

---------------------------------------------------------------------------
(* The claims                                                              *)

\* C1: for every octet sequence, IsUTF8Valid returns true if and only if
\* ConvertUTF8ToUTF16 succeeds on it, in either byte order, the output
\* capacity being at least twice the length of the input.
C1_ValidatorAgreesWithConverter ==
    Returned("IsUTF8Valid") =>
        \A le \in BOOLEAN :
            \A size \in {2 * Len(input), (2 * Len(input)) + 1} :
                result.ok = ConvertUTF8ToUTF16(input, size, le).ret.ok

\* in[k] is read as a lead octet: the octets before it are complete
\* sequences for the decoder
LeadPosition(in, k) ==
    LET st == ConvertUTF8ToUTF16Loop(SubSeq(in, 1, k - 1), 1,
                                     ConvertUTF8ToUTF16Locals, TRUE)
    IN  ~st.failed /\ st.expected_utf8_remaining = 0

\* C3: an input with the octet C0 or C1 in lead position is rejected,
\* whatever follows: IsUTF8Valid returns false and ConvertUTF8ToUTF16
\* returns (false, 0).
C3_OverlongLeadRejected ==
    /\ pc = "return"
    /\ fn \in {"IsUTF8Valid", "ConvertUTF8ToUTF16"}
    /\ \E k \in 1..Len(input) : input[k] \in {192, 193} /\ LeadPosition(input, k)
    => result = ReturnFalse

\* the value the octets of the sequence of length n at in[k] decode to
DecodedValue(in, k, n) ==
    IF n = 2 THEN ((in[k] - 192) * 64) + (in[k + 1] - 128)
    ELSE IF n = 3 THEN
        ((in[k] - 224) * 4096) + ((in[k + 1] - 128) * 64) + (in[k + 2] - 128)
    ELSE ((in[k] - 240) * 262144) + ((in[k + 1] - 128) * 4096)
         + ((in[k + 2] - 128) * 64) + (in[k + 3] - 128)

\* a lead octet of a sequence of n octets and its n - 1 continuation octets
\* are at in[k]
SequenceAt(in, k, n) ==
    /\ k + n - 1 <= Len(in)
    /\ in[k] \in (IF n = 2 THEN 192..223 ELSE IF n = 3 THEN 224..239 ELSE 240..247)
    /\ \A j \in 1..(n - 1) : IsTail(in[k + j])

\* an overlong encoding follows well-formed octets: a sequence of 2, 3 or 4
\* octets whose value fits a shorter one
ContainsOverlong(in) ==
    \E k \in 1..Len(in) : \E n \in 2..4 :
        /\ WellFormedUTF8(SubSeq(in, 1, k - 1))
        /\ SequenceAt(in, k, n)
        /\ DecodedValue(in, k, n) < (IF n = 2 THEN 128 ELSE IF n = 3 THEN 2048 ELSE 65536)

\* C4: IsUTF8Valid returns false for every input that contains an overlong
\* encoding of 2, 3 or 4 octets.
C4_OverlongEncodingInvalid ==
    Returned("IsUTF8Valid") /\ ContainsOverlong(input) => ~result.ok

\* the round trip of the output of the call of ConvertUTF8ToUTF16 through
\* ConvertUTF16ToUTF8, same byte order, the capacity being the least taken:
\* it succeeds and gives back the input, length and content
RoundTripHolds ==
    /\ result.ok
    /\ result.length = Len(out)
    /\ LET back == ConvertUTF16ToUTF8(out, Len(out) + (Len(out) \div 2), le_arg)
       IN  /\ back.ret.ok
           /\ back.ret.length = Len(input)
           /\ back.out = input

\* the input begins with U+FFFE (EF BF BE) and goes on: in UTF-16 its first
\* two octets are the BOM of the other byte order, and at least two follow
SwappedBOMFirst(in) == Len(in) >= 4 /\ StartsWith(in, <<239, 191, 190>>)

\* C2, as claimed: for every well-formed UTF-8 input and either byte order,
\* ConvertUTF8ToUTF16 succeeds and ConvertUTF16ToUTF8 turns its output back
\* into the input.
C2_RoundTrip_Original ==
    /\ Returned("ConvertUTF8ToUTF16")
    /\ out_size >= 2 * Len(input)
    /\ WellFormedUTF8(input)
    => RoundTripHolds

\* C2, amended: the round trip holds for every well-formed UTF-8 input that
\* does not begin with U+FFFE followed by at least one more character.
C2_RoundTrip ==
    /\ Returned("ConvertUTF8ToUTF16")
    /\ out_size >= 2 * Len(input)
    /\ WellFormedUTF8(input)
    /\ ~SwappedBOMFirst(input)
    => RoundTripHolds

\* C2, witness: a character above the BMP has gone through the round trip
C2_Witness ==
    /\ Returned("ConvertUTF8ToUTF16")
    /\ WellFormedUTF8(input)
    /\ Len(input) = 4
    /\ input[1] = 240
    /\ Len(out) = 4
    /\ RoundTripHolds

\* the octets written so far are those of decoding the whole code units
\* consumed so far in the given byte order
DecodedAs(le) ==
    out = ConvertUTF16ToUTF8Loop(SubSeq(input, 1, pos),
                                 ConvertUTF16ToUTF8Locals, le).out

\* the input begins with the two octets
BeginsWith(b1, b2) == Len(input) >= 2 /\ input[1] = b1 /\ input[2] = b2

\* C5, as claimed: an input that begins with FE FF is decoded big-endian
\* whatever the argument, one that begins with FF FE little-endian, and in
\* both cases the output begins with EF BB BF.
C5_BOM_Original ==
    /\ InLoop("ConvertUTF16ToUTF8") /\ BeginsWith(254, 255)
       => /\ little_endian = FALSE
          /\ DecodedAs(FALSE)
          /\ (pos >= 2 => StartsWith(out, <<239, 187, 191>>))
    /\ InLoop("ConvertUTF16ToUTF8") /\ BeginsWith(255, 254)
       => /\ little_endian = TRUE
          /\ DecodedAs(TRUE)
          /\ (pos >= 2 => StartsWith(out, <<239, 187, 191>>))

C7_OutputWithin2k ==
    fn = "ConvertUTF8ToUTF16"
    => /\ Len(out) <= 2 * pos
       /\ Len(out) <= out_size
       /\ (pc = "return" => result.length <= out_size)

\* C7, witness: a surrogate pair has been written at the fourth octet of a
\* four-octet sequence
C7_Witness ==
    /\ Returned("ConvertUTF8ToUTF16")
    /\ result.ok
    /\ Len(input) = 4
    /\ input[1] = 240
    /\ pos = 4
    /\ Len(out) = 4

\* C8: in ConvertUTF16ToUTF8, after k octets of the input at most
\* k + k / 2 octets are written, every write is inside an output of
\* capacity at least length + length / 2, and the count returned is at
\* most the capacity.
C8_OutputWithinOneAndHalf ==
    fn = "ConvertUTF16ToUTF8"
    => /\ Len(out) <= pos + (pos \div 2)
       /\ Len(out) <= out_size
       /\ (pc = "return" => result.length <= out_size)

\* C8, witness: every code unit took three octets and the output is full
C8_Witness ==
    /\ Returned("ConvertUTF16ToUTF8")
    /\ result.ok
    /\ Len(input) >= 4
    /\ result.length = out_size
    /\ Len(out) = out_size

\* C9: for a well-formed input that is not empty, ConvertUTF8ToUTF16
\* succeeds with a capacity of exactly twice the input length and returns
\* (false, 0) with one octet less; ConvertUTF16ToUTF8 succeeds with exactly
\* length + length / 2 and returns (false, 0) with one octet less, also
\* when the output would have fitted.
C9_CapacityBoundary ==
    /\ /\ Returned("ConvertUTF8ToUTF16")
       /\ input # <<>>
       /\ WellFormedUTF8(input)
       => /\ (out_size = 2 * Len(input)) => result.ok
          /\ (out_size = (2 * Len(input)) - 1) => result = ReturnFalse
    /\ /\ Returned("ConvertUTF16ToUTF8")
       /\ input # <<>>
       /\ WellFormedUTF16(input, ByteOrderOf(input, le_arg))
       => /\ (out_size = Len(input) + (Len(input) \div 2)) => result.ok
          /\ (out_size = Len(input) + (Len(input) \div 2) - 1)
              => result = ReturnFalse

\* C9, witness: a call is refused for one octet of capacity although the
\* output, a surrogate pair, would have fitted
C9_Witness ==
    /\ Returned("ConvertUTF8ToUTF16")
    /\ WellFormedUTF8(input)
    /\ Len(input) = 4
    /\ input[1] = 240
    /\ out_size = 7
    /\ Len(ConvertUTF8ToUTF16(input, 8, le_arg).out) = 4
    /\ result = ReturnFalse

C11_SurrogatesPaired ==
    Returned("ConvertUTF16ToUTF8") /\ result.ok
    => WellFormedUTF16(input, ByteOrderOf(input, le_arg))

\* C11, witness: a call has failed at a high surrogate that a code unit
\* outside the low surrogate range follows, after it wrote a character
C11_Witness ==
    /\ Returned("ConvertUTF16ToUTF8")
    /\ result = ReturnFalse
    /\ Len(input) = 6
    /\ pos = 6
    /\ Len(out) > 0
    /\ CodeUnit(input, 3, little_endian) \in 55296..56319
    /\ CodeUnit(input, 5, little_endian) \notin 56320..57343

\* the value is no Unicode scalar value: above 10FFFF or a surrogate
NotScalarValue(cp) == (cp > 1114111) \/ (cp \in 55296..57343)

\* C12: every code point that IsUTF8Valid or ConvertUTF8ToUTF16 has
\* assembled from a sequence of several octets and gone on from is at most
\* 10FFFF and no surrogate; a sequence that decodes to a surrogate or above
\* 10FFFF is rejected at its last octet.
C12_AssembledCodePointInRange ==
    fn \in {"IsUTF8Valid", "ConvertUTF8ToUTF16"}
    => /\ /\ (pc = "loop") \/ (pc = "return" /\ result.ok)
          /\ expected_utf8_remaining = 0
          => ~NotScalarValue(wide_character)
       /\ NotScalarValue(wide_character)
          => /\ pc = "return"
             /\ result = ReturnFalse
             /\ expected_utf8_remaining = 0
             /\ pos >= 3
             /\ IsTail(input[pos])

\* C12, witness: ConvertUTF8ToUTF16 has returned (false, 0) at the third
\* octet of ED A0 80, which decodes to the surrogate D800
C12_Witness ==
    /\ Returned("ConvertUTF8ToUTF16")
    /\ result = ReturnFalse
    /\ pos = 3
    /\ SubSeq(input, 1, 3) = <<237, 160, 128>>
    /\ wide_character = 55296

\* the input ends inside a sequence: a lead octet of a sequence of n octets
\* with fewer than n - 1 continuation octets after it, and nothing more
EndsInsideSequence(in) ==
    \E k \in 1..Len(in) : \E n \in 2..4 :
        /\ in[k] \in (IF n = 2 THEN 192..223 ELSE IF n = 3 THEN 224..239 ELSE 240..247)
        /\ Len(in) - k < n - 1
        /\ \A j \in (k + 1)..Len(in) : IsTail(in[j])

\* C13: an input that ends while continuation octets are expected is
\* rejected, IsUTF8Valid returns false and ConvertUTF8ToUTF16 (false, 0);
\* no call returns success with expected_utf8_remaining other than 0.
C13_TruncatedSequenceRejected ==
    /\ pc = "return"
    /\ fn \in {"IsUTF8Valid", "ConvertUTF8ToUTF16"}
    => /\ EndsInsideSequence(input) => result = ReturnFalse
       /\ result.ok => expected_utf8_remaining = 0

\* C13, witness: ConvertUTF8ToUTF16 has gone through the whole input, has
\* written a character, and returns (false, 0) with two octets expected
C13_Witness ==
    /\ Returned("ConvertUTF8ToUTF16")
    /\ EndsInsideSequence(input)
    /\ pos = Len(input)
    /\ Len(out) = 2
    /\ expected_utf8_remaining = 2
    /\ result = ReturnFalse

\* C14: an input with an octet of F5 or more at any position is rejected by
\* IsUTF8Valid and by ConvertUTF8ToUTF16, whatever follows the octet.
C14_OctetF5AndAboveRejected ==
    /\ pc = "return"
    /\ fn \in {"IsUTF8Valid", "ConvertUTF8ToUTF16"}
    /\ \E k \in 1..Len(input) : input[k] >= 245
    => result = ReturnFalse

\* C14, witness: ConvertUTF8ToUTF16 has taken F5 or F7 for the lead octet of
\* four and has returned (false, 0) at the fourth octet
C14_Witness ==
    /\ Returned("ConvertUTF8ToUTF16")
    /\ Len(input) = 4
    /\ input[1] \in {245, 247}
    /\ pos = 4
    /\ wide_character > Maximum_Character_Value
    /\ out_size = 8
    /\ result = ReturnFalse

\* C15: ConvertUTF16ToUTF8 returns (false, 0) for every input of an odd
\* number of octets, whatever the octets, the byte order asked for and the
\* output capacity; it does so before it reads or writes an octet.
C15_OddLengthRejected ==
    fn = "ConvertUTF16ToUTF8" /\ Len(input) % 2 = 1
    => /\ pc \in {"call", "return"}
       /\ pos = 0
       /\ out = <<>>
       /\ pc = "return" => result = ReturnFalse

\* C15, witness: a call with three octets, of which the first two are a
\* whole character, and capacity for them has returned (false, 0)
C15_Witness ==
    /\ Returned("ConvertUTF16ToUTF8")
    /\ Len(input) = 3
    /\ out_size = 4
    /\ result = ReturnFalse

\* the output capacities an empty input is given in C16
EmptyInputCapacities == 0..3

\* C16: for the empty input IsUTF8Valid returns true and both converters
\* return (true, 0), in either byte order and for any output capacity, zero
\* included; nothing is written to the output.
C16_EmptyInput ==
    /\ pc = "return" /\ input = <<>>
       => /\ result = ReturnTrue(0)
          /\ out = <<>>
          /\ pos = 0
    /\ IsUTF8Valid(<<>>)
    /\ \A size \in EmptyInputCapacities : \A le \in BOOLEAN :
          /\ ConvertUTF8ToUTF16(<<>>, size, le) = [ret |-> ReturnTrue(0), out |-> <<>>]
          /\ ConvertUTF16ToUTF8(<<>>, size, le) = [ret |-> ReturnTrue(0), out |-> <<>>]

\* C16, witness: a call of ConvertUTF8ToUTF16 with the empty input, no
\* output capacity and big-endian order has returned (true, 0)
C16_Witness ==
    /\ Returned("ConvertUTF8ToUTF16")
    /\ input = <<>>
    /\ out_size = 0
    /\ le_arg = FALSE
    /\ result = ReturnTrue(0)

---------------------------------------------------------------------------
(* The tests of ConvertUTF16ToUTF8 before its loop, as a function of the   *)
(* sizes of the two spans and of the width of std::size_t.  The octets of  *)
(* the spans are not part of this specification: the tests do not read     *)
(* them.                                                                   *)

\* widest size type of the specification of the sizes, in bits
MaxSizeBits == 24

\* the widths of the size type: the even ones
SizeWidths == {w \in 2..MaxSizeBits : w % 2 = 0}

\* in.size() > Max_UTF16_String, for a size type of w bits
TooLongAt(n, w) == n > Max_UTF16_String(w)

\* out.size() < (in.size() + (in.size() >> 1)), the sum taken in a size type
\* of w bits
OutputTooSmall8At(size, n, w) == size < ((n + ShiftRight(n, 1)) % Pow2(w))

\* the input sizes tried at a width: the smallest, those about
\* Max_UTF16_String and the largest
InputSizesAt(w) ==
    {n \in {0, 1, 2, 3} \cup {Max_UTF16_String(w) + d : d \in (-2)..3}
              \cup {Pow2(w) - 2, Pow2(w) - 1} : n >= 0 /\ n < Pow2(w)}

\* the output sizes tried for an input size: about the sum as the size type
\* holds it, and the largest
OutputSizesAt(n, w) ==
    {c \in {((n + ShiftRight(n, 1)) % Pow2(w)) - 1,
            (n + ShiftRight(n, 1)) % Pow2(w),
            Pow2(w) - 1} : c >= 0}

\* a call of ConvertUTF16ToUTF8 given by the sizes of its spans
InitSizes ==
    /\ fn = "ConvertUTF16ToUTF8 (sizes)"
    /\ input = <<>>
    /\ buffer = <<>>
    /\ calls = <<>>
    /\ size_bits \in SizeWidths
    /\ input_size \in InputSizesAt(size_bits)
    /\ out_size \in OutputSizesAt(input_size, size_bits)
    /\ le_arg \in BOOLEAN
    /\ Start

\* ConvertUTF16ToUTF8 up to the assignment of its iterators
ConvertUTF16ToUTF8_Sizes ==
    /\ fn = "ConvertUTF16ToUTF8 (sizes)"
    /\ pc = "call"
    /\ IF input_size = 0 THEN Return(ReturnTrue(0))
       ELSE IF OddLength(input_size) THEN Return(ReturnFalse)
       ELSE IF TooLongAt(input_size, size_bits) THEN Return(ReturnFalse)
       ELSE IF OutputTooSmall8At(out_size, input_size, size_bits)
       THEN Return(ReturnFalse)
       ELSE pc' = "loop" /\ UNCHANGED result
    /\ UNCHANGED <<calls, buffer, size_bits, input_size, fn, input, out_size,
                   le_arg,
                   little_endian, pos, expected_utf8_remaining,
                   wide_character, out>>

NextSizes == ConvertUTF16ToUTF8_Sizes

\* the calls given by their sizes
SpecSizes == InitSizes /\ [][NextSizes]_vars

\* floor((2^w - 1) / 1.5)
TwoThirdsOfMaximum(w) == (2 * (Pow2(w) - 1)) \div 3

\* the parts of C17 for the width of the call: Max_UTF16_String is
\* floor((2^w - 1) / 1.5), no input size up to it wraps the sum of the
\* capacity test, every input size above it returns (false, 0)
MaxUTF16StringHolds ==
    /\ Max_UTF16_String(size_bits) = TwoThirdsOfMaximum(size_bits)
    /\ input_size <= Max_UTF16_String(size_bits)
       => input_size + (input_size \div 2) < Pow2(size_bits)
    /\ pc # "call" /\ input_size > Max_UTF16_String(size_bits)
       => pc = "return" /\ result = ReturnFalse

OctetsOfUnit(u, le) ==
    IF le THEN <<u % 256, u \div 256>> ELSE <<u \div 256, u % 256>>

\* the high and the low surrogate of a code point of 10000..10FFFF as the
\* Unicode standard defines them
StandardHigh(cp) == 55296 + ((cp - 65536) \div 1024)

StandardLow(cp) == 56320 + ((cp - 65536) % 1024)

\* the step completes a sequence that decodes to a code point above FFFF
\* and the call goes on
CompletesSupplementary ==
    /\ fn = "ConvertUTF8ToUTF16"
    /\ pc = "loop"
    /\ pc' = "loop"
    /\ expected_utf8_remaining = 1
    /\ expected_utf8_remaining' = 0
    /\ wide_character' > 65535

\* C18: for every code point of 10000..10FFFF that ConvertUTF8ToUTF16
\* decodes, the step writes exactly two code units, the high surrogate
\* D800 + ((cp - 10000) >> 10) of D800..DBFF and then the low surrogate
\* DC00 + ((cp - 10000) & 3FF) of DC00..DFFF, in the byte order of the
\* call; the expressions of the code, truncated to 16 bits, have these
\* values.
C18_SurrogatePairEmitted ==
    [][CompletesSupplementary =>
        LET cp == wide_character'
        IN  /\ cp \in 65536..1114111
            /\ StandardHigh(cp) \in 55296..56319
            /\ StandardLow(cp) \in 56320..57343
            /\ HighSurrogate(cp) = StandardHigh(cp)
            /\ LowSurrogate(cp) = StandardLow(cp)
            /\ out' = out \o OctetsOfUnit(StandardHigh(cp), little_endian)
                          \o OctetsOfUnit(StandardLow(cp), little_endian)]_vars

\* C18, witness: F4 8F BF BF, the code point 10FFFF, has been written as
\* DBFF DFFF in big-endian order
C18_Witness ==
    /\ Returned("ConvertUTF8ToUTF16")
    /\ result = ReturnTrue(4)
    /\ input = <<244, 143, 191, 191>>
    /\ wide_character = 1114111
    /\ le_arg = FALSE
    /\ out = <<219, 255, 223, 255>>

\* the octets with the two octets of every code unit exchanged
SwapOctets(s) ==
    [i \in 1..Len(s) |-> IF i % 2 = 1 THEN s[i + 1] ELSE s[i - 1]]

\* the character the last step of the loop has written, when it wrote one:
\* the value of the sequence that ends at input[pos], or the ASCII octet
LastCharacter == IF IsTail(input[pos]) THEN wide_character ELSE input[pos]

\* C19: ConvertUTF8ToUTF16 stores every code unit low octet first when
\* little_endian is true and high octet first when it is false; for the
\* same input the results in the two byte orders are equal, the outputs
\* have the same length, and the big-endian output is the little-endian
\* output with the two octets of every code unit exchanged.
C19_ByteOrderOfUnits ==
    fn = "ConvertUTF8ToUTF16"
    => /\ /\ pc = "loop"
          /\ pos > 0
          /\ expected_utf8_remaining = 0
          /\ LastCharacter <= 65535
          => SubSeq(out, Len(out) - 1, Len(out))
                 = OctetsOfUnit(LastCharacter, little_endian)
       /\ pc = "return"
          => LET other == ConvertUTF8ToUTF16(input, out_size, ~le_arg)
             IN  /\ other.ret = result
                 /\ Len(other.out) = Len(out)
                 /\ other.out = SwapOctets(out)

\* C19, witness: 'A' and a character of three octets have been written
\* high octet first, 00 41 and then a unit of F000..FFFF
C19_Witness ==
    /\ Returned("ConvertUTF8ToUTF16")
    /\ result = ReturnTrue(4)
    /\ le_arg = FALSE
    /\ Len(input) = 4
    /\ input[1] = 65
    /\ input[2] = 239
    /\ SubSeq(out, 1, 2) = <<0, 65>>
    /\ out[3] >= 240

\* the code unit at out[i], out[i + 1] in the byte order of the call
UnitOfOutput(i) == CodeUnit(out, i, le_arg)

\* the input holds EF BB BF
InputHoldsBOM ==
    \E k \in 1..(Len(input) - 2) : SubSeq(input, k, k + 2) = <<239, 187, 191>>

\* the parts of C20 about a U+FEFF of the input: the step that completes
\* EF BB BF writes the one code unit FEFF in the byte order asked for, and
\* the byte order of the call never changes
BOMIsOrdinary ==
    /\ little_endian = le_arg
    /\ /\ pc = "loop"
       /\ pos >= 3
       /\ expected_utf8_remaining = 0
       /\ SubSeq(input, pos - 2, pos) = <<239, 187, 191>>
       => /\ wide_character = 65279
          /\ SubSeq(out, Len(out) - 1, Len(out)) = OctetsOfUnit(65279, le_arg)
    /\ /\ pc = "loop"
       /\ pos >= 4
       /\ expected_utf8_remaining = 0
       /\ SubSeq(input, pos - 3, pos - 1) = <<239, 187, 191>>
       /\ LastCharacter <= 65535
       => SubSeq(out, Len(out) - 3, Len(out))
              = OctetsOfUnit(65279, le_arg) \o OctetsOfUnit(LastCharacter, le_arg)

\* C20: ConvertUTF8ToUTF16 takes U+FEFF (EF BB BF) at any position of the
\* input, the first included, for an ordinary character: it writes the one
\* code unit FEFF in the byte order asked for, does not change the byte
\* order of the code units after it, and writes no code unit FEFF that is
\* not in the input.
C20_BOMIsOrdinaryCharacter ==
    fn = "ConvertUTF8ToUTF16"
    => /\ BOMIsOrdinary
       /\ \A i \in 1..Len(out) :
             (i % 2 = 1 /\ UnitOfOutput(i) = 65279) => InputHoldsBOM

\* RFC 3629 section 3: the octets of a code point, the shortest form, the
\* bits of the code point from the most significant on
StandardUTF8(cp) ==
    IF cp <= 127 THEN <<cp>>
    ELSE IF cp <= 2047 THEN <<192 + (cp \div 64), 128 + (cp % 64)>>
    ELSE IF cp <= 65535 THEN
        <<224 + (cp \div 4096), 128 + ((cp \div 64) % 64), 128 + (cp % 64)>>
    ELSE <<240 + (cp \div 262144), 128 + ((cp \div 4096) % 64),
           128 + ((cp \div 64) % 64), 128 + (cp % 64)>>

\* the code point of the code unit at in[k], or of the surrogate pair that
\* starts there, in a byte order
CodePointAt(in, k, le) ==
    IF CodeUnit(in, k, le) \in 55296..56319
    THEN 65536 + ((CodeUnit(in, k, le) - 55296) * 1024)
               + (CodeUnit(in, k + 2, le) - 56320)
    ELSE CodeUnit(in, k, le)

\* an iteration of the loop of ConvertUTF16ToUTF8 after which the call
\* goes on
EncodesCharacter ==
    /\ fn = "ConvertUTF16ToUTF8"
    /\ pc = "loop"
    /\ pc' = "loop"
    /\ pos' # pos

\* C21: ConvertUTF16ToUTF8 writes every code point it decodes in the
\* shortest UTF-8 form, of 1 octet up to 7F, 2 up to 7FF, 3 up to FFFF and
\* 4 above, the bits of the code point from the most significant on, and
\* appends the octets of the code points in the order of the input.
C21_ShortestFormEncoding ==
    [][EncodesCharacter =>
        LET cp == CodePointAt(input, pos + 1, little_endian)
        IN  /\ out' = out \o StandardUTF8(cp)
            /\ pos' = pos + (IF cp > 65535 THEN 4 ELSE 2)]_vars

\* C21, witness: 07FF and the pair D800 DC00 have been written as DF BF and
\* F0 90 80 80
C21_Witness ==
    /\ Returned("ConvertUTF16ToUTF8")
    /\ result = ReturnTrue(6)
    /\ Len(input) = 6
    /\ out = <<223, 191, 240, 144, 128, 128>>

\* a step of a converter stores only at the offsets of the output span from
\* the output iterator on and leaves the input as it is; after a successful
\* return the octets of the span from the count returned on are as before
\* the call
FrameKept ==
    fn \in {"ConvertUTF8ToUTF16", "ConvertUTF16ToUTF8"}
    => /\ input' = input
       /\ DOMAIN buffer' = DOMAIN buffer
       /\ \A i \in DOMAIN buffer :
             (i <= Len(out)) \/ (i > Len(out')) => buffer'[i] = buffer[i]
       /\ (pc' = "return" /\ result'.ok)
          => /\ result'.length = Len(out')
             /\ \A i \in DOMAIN buffer' :
                   i > result'.length => buffer'[i] = 170

\* C22: on success both converters leave every octet of the output span at
\* an offset from the count returned on as it was before the call, and no
\* step of a call changes the input.
C22_FrameOfTheCall == [][FrameKept]_vars

\* C22, witness: ConvertUTF16ToUTF8 has returned success with fewer octets
\* than the output span holds; the octets it wrote are in the span and the
\* last octet of the span is as before the call
C22_Witness ==
    /\ Returned("ConvertUTF16ToUTF8")
    /\ result.ok
    /\ result.length >= 2
    /\ result.length < out_size
    /\ SubSeq(buffer, 1, result.length) = out
    /\ buffer[1] # 170
    /\ buffer[out_size] = 170

---------------------------------------------------------------------------
(* Calls in progress at once                                               *)

\* the number of calls in progress at once
MaxCalls == 2

\* the activation of a call: its arguments and its locals before the first
\* statement
Activation(f, in, size, le) ==
    [fn |-> f, input |-> in, out_size |-> size, le_arg |-> le,
     little_endian |-> le, pc |-> "call", pos |-> 0, expected_utf8_remaining |-> 0,
     wide_character |-> 0, out |-> <<>>, result |-> NoResult]

\* the inputs of the calls in progress at once: the empty input, 'A', U+0080
\* as C2 80, C2 followed by 'A', and E0 A0 with the octet after it missing;
\* 'A' in both byte orders, the pair D800 DC00 and a lone D800
ConcurrentInputs8 == {<<>>, <<65>>, <<194, 128>>, <<194, 65>>, <<224, 160>>}

ConcurrentInputs16 == {<<>>, <<65, 0>>, <<0, 65>>, <<0, 216, 0, 220>>,
                       <<0, 216>>}

\* the calls that can be in progress
Activations ==
    {Activation("IsUTF8Valid", in, 0, TRUE) : in \in ConcurrentInputs8}
    \cup {Activation("ConvertUTF8ToUTF16", in, 2 * Len(in), le) :
              in \in ConcurrentInputs8, le \in BOOLEAN}
    \cup {Activation("ConvertUTF16ToUTF8", in, Len(in) + (Len(in) \div 2), le) :
              in \in ConcurrentInputs16, le \in BOOLEAN}

\* locals of which the accumulator is the one of the first call, as a
\* variable with static storage would be
LocalsOfFirstCall(cs, i) ==
    [cs[i] EXCEPT !.wide_character = cs[1].wide_character]

\* the locals and spans a call works on: expected_utf8_remaining,
\* wide_character, the iterators and little_endian are automatic variables
\* of the call, and the spans are its arguments
LocalsOfCall(cs, i) == cs[i]

\* the return of a pair from the activation c
Returns(c, r) == [c EXCEPT !.pc = "return", !.result = r]

\* the statements of a call before its loop
EnterCall(c) ==
    IF c.fn = "IsUTF8Valid" THEN
        IF c.input = <<>> THEN Returns(c, ReturnTrue(0))
        ELSE [c EXCEPT !.pc = "loop"]
    ELSE IF c.fn = "ConvertUTF8ToUTF16" THEN
        IF c.input = <<>> THEN Returns(c, ReturnTrue(0))
        ELSE IF OutputTooSmall16(c.out_size, Len(c.input))
        THEN Returns(c, ReturnFalse)
        ELSE [c EXCEPT !.pc = "loop"]
    ELSE
        IF Len(c.input) = 0 THEN Returns(c, ReturnTrue(0))
        ELSE IF ConvertUTF16ToUTF8Refused(Len(c.input), c.out_size)
        THEN Returns(c, ReturnFalse)
        ELSE [c EXCEPT !.pc = "loop",
                       !.little_endian = DetectBOM(c.input, c.little_endian)]

\* one iteration of the loop of a call
IterateCall(c) ==
    IF c.fn = "IsUTF8Valid" THEN
        LET st == IsUTF8ValidOctet(
                      [expected_utf8_remaining |-> c.expected_utf8_remaining,
                       wide_character |-> c.wide_character,
                       failed |-> FALSE], c.input[c.pos + 1])
        IN  [c EXCEPT !.expected_utf8_remaining = st.expected_utf8_remaining,
                      !.wide_character = st.wide_character,
                      !.pos = c.pos + 1,
                      !.pc = IF st.failed THEN "return" ELSE "loop",
                      !.result = IF st.failed THEN ReturnFalse ELSE c.result]
    ELSE IF c.fn = "ConvertUTF8ToUTF16" THEN
        LET st == ConvertUTF8ToUTF16Octet(
                      [expected_utf8_remaining |-> c.expected_utf8_remaining,
                       wide_character |-> c.wide_character,
                       out |-> c.out,
                       failed |-> FALSE], c.input[c.pos + 1], c.little_endian)
        IN  [c EXCEPT !.expected_utf8_remaining = st.expected_utf8_remaining,
                      !.wide_character = st.wide_character,
                      !.out = st.out,
                      !.pos = c.pos + 1,
                      !.pc = IF st.failed THEN "return" ELSE "loop",
                      !.result = IF st.failed THEN ReturnFalse ELSE c.result]
    ELSE
        LET st == ConvertUTF16ToUTF8Unit(
                      c.input, [p |-> c.pos, out |-> c.out, failed |-> FALSE],
                      c.little_endian)
        IN  [c EXCEPT !.out = st.out,
                      !.pos = st.p,
                      !.pc = IF st.failed THEN "return" ELSE "loop",
                      !.result = IF st.failed THEN ReturnFalse ELSE c.result]

\* the return of a call after its loop
LeaveCall(c) ==
    LET st == [expected_utf8_remaining |-> c.expected_utf8_remaining,
               wide_character |-> c.wide_character,
               out |-> c.out, p |-> c.pos, failed |-> FALSE]
    IN  IF c.fn = "IsUTF8Valid"
        THEN Returns(c, [ok |-> IsUTF8ValidReturn(st), length |-> 0])
        ELSE IF c.fn = "ConvertUTF8ToUTF16"
        THEN Returns(c, ConvertUTF8ToUTF16Return(st))
        ELSE Returns(c, ConvertUTF16ToUTF8Return(st))

\* no call of the other specifications is in progress
NoSingleCall ==
    /\ fn = "calls in progress at once"
    /\ input = <<>>
    /\ out_size = 0
    /\ le_arg = TRUE
    /\ size_bits = SizeBits
    /\ input_size = 0
    /\ buffer = <<>>
    /\ Start

\* MaxCalls calls have been made, each with spans of its own
InitConcurrent ==
    /\ calls \in [1..MaxCalls -> Activations]
    /\ NoSingleCall

SingleCallUnchanged ==
    UNCHANGED <<fn, input, out_size, le_arg, little_endian, pc, pos,
                expected_utf8_remaining, wide_character, out, result,
                size_bits, input_size, buffer>>

\* call i runs up to its loop
Concurrent_Call(i) ==
    /\ calls[i].pc = "call"
    /\ calls' = [calls EXCEPT
                     ![i] = EnterCall(LocalsOfCall(calls, i))]
    /\ SingleCallUnchanged

\* call i runs one iteration of its loop
Concurrent_Iteration(i) ==
    /\ calls[i].pc = "loop"
    /\ calls[i].pos # Len(calls[i].input)
    /\ calls' = [calls EXCEPT
                     ![i] = IterateCall(LocalsOfCall(calls, i))]
    /\ SingleCallUnchanged

\* call i returns after its loop
Concurrent_End(i) ==
    /\ calls[i].pc = "loop"
    /\ calls[i].pos = Len(calls[i].input)
    /\ calls' = [calls EXCEPT
                     ![i] = LeaveCall(LocalsOfCall(calls, i))]
    /\ SingleCallUnchanged

NextConcurrent ==
    \E i \in DOMAIN calls :
        \/ Concurrent_Call(i)
        \/ Concurrent_Iteration(i)
        \/ Concurrent_End(i)

\* calls in progress at once, their steps interleaved in every order
SpecConcurrent == InitConcurrent /\ [][NextConcurrent]_vars

\* the pair a call returns and the octets it writes when it runs alone from
\* its first statement to its return
RunAlone(c) ==
    IF c.fn = "IsUTF8Valid"
    THEN [ret |-> [ok |-> IsUTF8Valid(c.input), length |-> 0], out |-> <<>>]
    ELSE IF c.fn = "ConvertUTF8ToUTF16"
    THEN ConvertUTF8ToUTF16(c.input, c.out_size, c.le_arg)
    ELSE ConvertUTF16ToUTF8(c.input, c.out_size, c.le_arg)

\* C23: calls of the three operations in progress at once, their iterations
\* interleaved in any order and each on spans of its own, return the pairs
\* and write the octets they do when run one after another.
C23_InterleavingHasNoEffect ==
    \A i \in DOMAIN calls :
        calls[i].pc = "return"
        => /\ calls[i].result = RunAlone(calls[i]).ret
           /\ calls[i].out = RunAlone(calls[i]).out

\* C23, witness: ConvertUTF8ToUTF16 has returned U+0080 from C2 80 while a
\* call of IsUTF8Valid on E0 A0 stands inside its sequence with an
\* accumulator of its own
C23_Witness ==
    /\ DOMAIN calls = 1..MaxCalls
    /\ calls[1].fn = "ConvertUTF8ToUTF16"
    /\ calls[1].pc = "return"
    /\ calls[1].result = ReturnTrue(2)
    /\ calls[1].out = <<128, 0>>
    /\ calls[2].fn = "IsUTF8Valid"
    /\ calls[2].pc = "loop"
    /\ calls[2].expected_utf8_remaining = 1
    /\ calls[2].wide_character = 32

---------------------------------------------------------------------------
(* The decoding of UTF-8, octet by octet                                   *)

\* a call of IsUTF8Valid or ConvertUTF8ToUTF16 runs one iteration of its loop
DecodesOctet ==
    /\ fn \in {"IsUTF8Valid", "ConvertUTF8ToUTF16"}
    /\ pc = "loop"
    /\ pos' = pos + 1

\* the iteration ends the call with a failure
RejectsOctet == pc' = "return" /\ ~result'.ok

\* the iteration starts a sequence that n more octets must follow
StartsSequence(n) == pc' = "loop" /\ expected_utf8_remaining' = n

\* the iteration takes a 10xxxxxx octet into the sequence in progress
FoldsContinuation(octet) ==
    /\ expected_utf8_remaining' = expected_utf8_remaining - 1
    /\ wide_character' = (wide_character * 64) + (octet % 64)

\* the iteration on an octet while a sequence is in progress
ContinuationRule(octet) ==
    /\ ~(octet \in 128..191) => RejectsOctet
    /\ octet \in 128..191 => FoldsContinuation(octet)

\* the iteration on an octet in lead position, by the bits of the octet alone
LeadRule(octet) ==
    /\ octet <= 127 => StartsSequence(0)
    /\ octet \in 192..223 => StartsSequence(1)
    /\ octet \in 224..239 => StartsSequence(2)
    /\ octet \in 240..247 => StartsSequence(3)
    /\ (octet \in 128..191) \/ (octet >= 248) => RejectsOctet

\* the iteration on an octet in lead position as the source has it:
\* IsUTF8Valid returns false on C0, C1 and F5 and above before it looks at
\* the bits, ConvertUTF8ToUTF16 does not
LeadRuleOfSource(octet) ==
    IF (fn = "IsUTF8Valid") /\ ((octet \in {192, 193}) \/ (octet >= 245))
    THEN RejectsOctet
    ELSE LeadRule(octet)

DecodeMachine ==
    DecodesOctet
    => /\ expected_utf8_remaining' \in 0..3
       /\ IF expected_utf8_remaining > 0
          THEN ContinuationRule(input[pos + 1])
          ELSE LeadRule(input[pos + 1])

\* the two functions take the octet alike: from the same number of octets
\* expected and the same accumulator, both reject it or neither does
DecodesAlike ==
    DecodesOctet
    => LET st == [expected_utf8_remaining |-> expected_utf8_remaining,
                  wide_character |-> wide_character,
                  out |-> <<>>, failed |-> FALSE]
       IN  IsUTF8ValidOctet(st, input[pos + 1]).failed
           = ConvertUTF8ToUTF16Octet(st, input[pos + 1], TRUE).failed

DecodeMachineInBoth == DecodeMachine /\ DecodesAlike

DecodeMachineOfSource ==
    DecodesOctet
    => /\ expected_utf8_remaining' \in 0..3
       /\ IF expected_utf8_remaining > 0
          THEN ContinuationRule(input[pos + 1])
          ELSE LeadRuleOfSource(input[pos + 1])

\* C24: IsUTF8Valid and ConvertUTF8ToUTF16 decode alike.  After every octet
\* the number of octets expected is in 0..3; in lead position an octet up
\* to 7F leaves it 0, 110xxxxx sets it to 1, 1110xxxx to 2, 11110xxx to 3
\* and any other octet is rejected; inside a sequence an octet that is not
\* 10xxxxxx is rejected at that octet, and a 10xxxxxx octet takes one off
\* the number and puts its low six bits into the accumulator.
C24_DecodeStateMachine == [][DecodeMachineInBoth]_vars

\* the machine with the two tests that only IsUTF8Valid makes
C24_DecodeStateMachineOfSource == [][DecodeMachineOfSource]_vars

\* IsUTF8Valid has returned false at a lead octet C0, C1, F5 or F7 with no
\* octet expected after it
C24_ValidatorRejectsLead ==
    /\ Returned("IsUTF8Valid")
    /\ Len(input) >= 2
    /\ pos = 1
    /\ input[1] \in {192, 193, 245, 247}
    /\ expected_utf8_remaining = 0
    /\ result = ReturnFalse

\* ConvertUTF8ToUTF16 has taken the same lead octet and expects octets
\* after it
C24_ConverterTakesLead ==
    /\ fn = "ConvertUTF8ToUTF16"
    /\ pc = "loop"
    /\ Len(input) >= 2
    /\ pos = 1
    /\ input[1] \in {192, 193, 245, 247}
    /\ expected_utf8_remaining \in {1, 3}

---------------------------------------------------------------------------
(* The arithmetic of a surrogate pair                                      *)

\* the high and low surrogates the arithmetic is run on: every high
\* surrogate with the low surrogates at the ends and in the middle of their
\* range, and every low surrogate with such high surrogates
SomeHighSurrogates == {55296, 55297, 55359, 55360, 55807, 55808, 56318, 56319}

SomeLowSurrogates == {56320, 56321, 56831, 56832, 57342, 57343}

SurrogatePairs ==
    ((Surrogate_High_Min..Surrogate_High_Max) \X SomeLowSurrogates)
    \cup (SomeHighSurrogates \X (Surrogate_Low_Min..Surrogate_Low_Max))

\* a surrogate pair in the input of ConvertUTF16ToUTF8, low octet first
InitSurrogates ==
    /\ fn = "ConvertUTF16ToUTF8 (surrogate pair)"
    /\ \E pair \in SurrogatePairs :
           input = InsertUTF16LE(pair[1]) \o InsertUTF16LE(pair[2])
    /\ out_size = 0
    /\ le_arg = TRUE
    /\ size_bits = SizeBits
    /\ input_size = Len(input)
    /\ buffer = <<>>
    /\ calls = <<>>
    /\ Start

\* the two code units are read and combined into the character
ConvertUTF16ToUTF8_Combine ==
    /\ fn = "ConvertUTF16ToUTF8 (surrogate pair)"
    /\ pc = "call"
    /\ LET character == ExtractUTF16(input, 0, little_endian)
           low_surrogate == ExtractUTF16(input, 2, little_endian)
       IN  /\ InSurrogateRange(character)
           /\ ~InLowSurrogateRange(character)
           /\ ~((low_surrogate < Surrogate_Low_Min) \/
                (low_surrogate > Surrogate_Low_Max))
           /\ wide_character' = CombineSurrogates(character, low_surrogate)
    /\ pos' = 4
    /\ pc' = "return"
    /\ UNCHANGED <<calls, buffer, size_bits, input_size, fn, input, out_size,
                   le_arg, little_endian, expected_utf8_remaining, out,
                   result>>

NextSurrogates == ConvertUTF16ToUTF8_Combine

\* the arithmetic of line 717 on surrogate pairs
SpecSurrogates == InitSurrogates /\ [][NextSurrogates]_vars

\* the code units of the pair in the input, by arithmetic
HighOfPair == input[1] + (256 * input[2])

LowOfPair == input[3] + (256 * input[4])

\* The Unicode Standard, section 3.9, D91: the code point of a pair
CodePointOfPair(u, l) == 65536 + ((u - 55296) * 1024) + (l - 56320)

\* 0x10000 - (0xD800 << 10) - 0xDC00, a negative number
OffsetAsWritten == 65536 - (55296 * 1024) - 56320

\* C25: for every high surrogate u and low surrogate l the sum
\* ((u << 10) + l + 0xFCA02400) mod 2^32 of ConvertUTF16ToUTF8 is
\* 0x10000 + ((u - 0xD800) << 10) + (l - 0xDC00), and 0xFCA02400 is
\* (0x10000 - (0xD800 << 10) - 0xDC00) mod 2^32.
C25_SurrogateArithmetic ==
    /\ Surrogate_Offset_Hi = (OffsetAsWritten \div 65536) % 65536
    /\ Surrogate_Offset_Lo = OffsetAsWritten % 65536
    /\ (fn = "ConvertUTF16ToUTF8 (surrogate pair)" /\ pc = "return")
       => wide_character = CodePointOfPair(HighOfPair, LowOfPair)

\* C25, witness: the pair DBFF DFFF has been combined into U+10FFFF, the sum
\* having wrapped around 2^32
C25_Witness ==
    /\ fn = "ConvertUTF16ToUTF8 (surrogate pair)"
    /\ pc = "return"
    /\ input = <<255, 219, 255, 223>>
    /\ wide_character = 1114111

---------------------------------------------------------------------------
(* The character handed to the encoding branches                           *)

\* the value of character when the iteration that starts at offset p comes
\* to the four encoding branches, and -1 when the iteration returns
\* {false, 0} before them
CharacterToEncode(in, p, le) ==
    LET character == ExtractUTF16(in, p, le)
    IN  IF InSurrogateRange(character) THEN
            IF InLowSurrogateRange(character) THEN -1
            ELSE IF p + 2 = Len(in) THEN -1
            ELSE
                LET low_surrogate == ExtractUTF16(in, p + 2, le)
                IN  IF (low_surrogate < Surrogate_Low_Min) \/
                       (low_surrogate > Surrogate_Low_Max)
                    THEN -1
                    ELSE CombineSurrogates(character, low_surrogate)
        ELSE character

\* an iteration of ConvertUTF16ToUTF8 that comes to the encoding branches has
\* a scalar value to encode, one of the branches takes it and the loop goes
\* on; an iteration that does not come to them returns {false, 0}
EncodesScalarValue ==
    (fn = "ConvertUTF16ToUTF8" /\ pc = "loop" /\ pos # Len(input))
    => LET v == CharacterToEncode(input, pos, little_endian)
       IN  IF v = -1
           THEN pc' = "return" /\ result' = ReturnFalse
           ELSE /\ v <= 1114111
                /\ ~(v \in 55296..57343)
                /\ pc' = "loop"
                /\ Len(out') \in (Len(out) + 1)..(Len(out) + 4)
                /\ out' = out \o EncodeUTF8(v)

\* C26: in ConvertUTF16ToUTF8 the value handed to the encoding branches is
\* at most 0x10FFFF and not in D800..DFFF, for every input and either byte
\* order, so the return {false, 0} after the four branches is never taken.
C26_DefensiveReturnUnreachable == [][EncodesScalarValue]_vars

\* C26, witness: the largest pair, DBFF DFFF, has been encoded as
\* F4 8F BF BF after a high surrogate read big-endian
C26_Witness ==
    /\ fn = "ConvertUTF16ToUTF8"
    /\ ~little_endian
    /\ pc = "loop"
    /\ pos = 4
    /\ Len(input) = 6
    /\ SubSeq(input, 1, 4) = <<219, 255, 223, 255>>
    /\ out = <<244, 143, 191, 191>>

---------------------------------------------------------------------------
(* The loop of ConvertUTF16ToUTF8 comes to its end                         *)

\* an iteration of the loop can run: the test of "while (p != q)" holds
UnitEnabled == fn = "ConvertUTF16ToUTF8" /\ pc = "loop" /\ pos # Len(input)

\* WF_vars(ConvertUTF16ToUTF8_Unit), with UnitEnabled for the ENABLED of the
\* action: an iteration that can run does run
UnitRuns ==
    []<>(~UnitEnabled) \/ []<><<ConvertUTF16ToUTF8_Unit>>_vars

\* the thread that made the call goes on running it
SpecUTF16Fair ==
    /\ SpecUTF16
    /\ WF_vars(ConvertUTF16ToUTF8_Call)
    /\ UnitRuns
    /\ WF_vars(ConvertUTF16ToUTF8_End)

\* the offsets the check for a BOM reads: *(p + 0) and *(p + 1), when the
\* input has four octets or more
ReadsOfBOM(in) == IF Len(in) >= 4 THEN {0, 1} ELSE {}

\* the offsets the iteration that starts at offset p reads: the two octets
\* of the code unit, and the two of the low surrogate when the unit is a
\* high surrogate and p + 2 is not the end
ReadsOfUnit(in, p, le) ==
    LET character == ExtractUTF16(in, p, le)
    IN  IF InSurrogateRange(character) /\ ~InLowSurrogateRange(character)
           /\ (p + 2 # Len(in))
        THEN p..(p + 3)
        ELSE p..(p + 1)

\* inside the loop the input has an even length, p is at an even offset not
\* beyond the end, and the iteration to come and the check for a BOM read
\* octets of the input only
LoopWithinInput ==
    (fn = "ConvertUTF16ToUTF8" /\ pc = "loop")
    => /\ Len(input) % 2 = 0
       /\ pos % 2 = 0
       /\ pos <= Len(input)
       /\ ReadsOfBOM(input) \subseteq 0..(Len(input) - 1)
       /\ (pos # Len(input))
          => ReadsOfUnit(input, pos, little_endian) \subseteq 0..(Len(input) - 1)

\* a call that returns success is at the end of its input
EndsAtLength ==
    (Returned("ConvertUTF16ToUTF8") /\ result.ok) => pos = Len(input)

\* an iteration moves p on by two or by four octets and not beyond the end
LoopAdvances ==
    (fn = "ConvertUTF16ToUTF8" /\ pc = "loop" /\ pos' # pos)
    => /\ pos' - pos \in {2, 4}
       /\ pos' <= Len(input)

\* C27: for every input of an even length the loop of ConvertUTF16ToUTF8
\* comes to its end: p moves on by 2 or 4 octets an iteration, is at an even
\* offset not beyond the length, comes to the length itself, and every read
\* of two octets, the low surrogate and the check for a BOM included, is
\* within the input.
C27_LoopTerminates ==
    /\ [](LoopWithinInput /\ EndsAtLength)
    /\ [][LoopAdvances]_vars
    /\ <>(pc = "return")

\* C27, witness: the loop has come to the end of an input of three code
\* units, a surrogate pair among them, of which the last was read at
\* offset 4
C27_Witness ==
    /\ fn = "ConvertUTF16ToUTF8"
    /\ pc = "loop"
    /\ Len(input) = 6
    /\ pos = 6
    /\ Len(out) = 5

---------------------------------------------------------------------------
(* The output of ConvertUTF16ToUTF8 is valid UTF-8                         *)

\* C28: whenever ConvertUTF16ToUTF8 returns success with a length n, the
\* first n octets of its output span are accepted by IsUTF8Valid.
C28_OutputIsValidUTF8 ==
    (Returned("ConvertUTF16ToUTF8") /\ result.ok)
    => /\ result.length = Len(out)
       /\ SubSeq(buffer, 1, result.length) = out
       /\ IsUTF8Valid(SubSeq(buffer, 1, result.length))

\* C28, witness: a character of three octets and a surrogate pair have been
\* written, and the seven octets are valid UTF-8 in an output span of nine
C28_Witness ==
    /\ Returned("ConvertUTF16ToUTF8")
    /\ result = ReturnTrue(7)
    /\ Len(input) = 6
    /\ out_size = 9
    /\ IsUTF8Valid(SubSeq(buffer, 1, 7))

---------------------------------------------------------------------------
(* From UTF-16 to UTF-8 and back                                           *)

\* ConvertUTF8ToUTF16 on the octets ConvertUTF16ToUTF8 has written, with the
\* byte order the caller asked for and an output span of the least size taken
ConvertedBack == ConvertUTF8ToUTF16(out, 2 * Len(out), le_arg)

\* ConvertUTF16ToUTF8 has returned success and no BOM has made it read the
\* input in the byte order the caller did not ask for
AcceptedInOrderAsked ==
    /\ Returned("ConvertUTF16ToUTF8")
    /\ result.ok
    /\ little_endian = le_arg

\* C29: for every UTF-16 input that ConvertUTF16ToUTF8 accepts with the
\* byte order e and of which no BOM turns the byte order into the opposite
\* of e, ConvertUTF8ToUTF16 on the UTF-8 written, with the same e, returns
\* success and gives back the octets of the input.
C29_ReverseRoundTrip ==
    AcceptedInOrderAsked
    => /\ ConvertedBack.ret = ReturnTrue(Len(input))
       /\ ConvertedBack.out = input

\* C29, witness: a big-endian input of a BOM and a surrogate pair has been
\* converted and comes back octet for octet
C29_Witness ==
    /\ AcceptedInOrderAsked
    /\ ~le_arg
    /\ input = <<254, 255, 216, 0, 220, 0>>
    /\ out = <<239, 187, 191, 240, 144, 128, 128>>
    /\ ConvertedBack.out = input

---------------------------------------------------------------------------
(* The size test of ConvertUTF8ToUTF16 in a size type of w bits            *)

\* out.size() < (in.size() * 2), the product taken in a size type of w bits
OutputTooSmall16At(size, n, w) == size < ((n * 2) % Pow2(w))

\* the input sizes tried at a width: the smallest, those about half of the
\* range of the size type and the largest
InputSizes8At(w) ==
    {n \in {0, 1, 2, 3} \cup {Pow2(w - 1) + d : d \in (-2)..2}
              \cup {Pow2(w) - 2, Pow2(w) - 1} : n >= 0 /\ n < Pow2(w)}

\* the output sizes tried for an input size: none, about the product as the
\* size type holds it, and the largest
OutputSizes16At(n, w) ==
    {c \in {0, ((n * 2) % Pow2(w)) - 1, (n * 2) % Pow2(w), Pow2(w) - 1} :
         c >= 0}

\* a call of ConvertUTF8ToUTF16 given by the sizes of its spans
InitSizesUTF8 ==
    /\ fn = "ConvertUTF8ToUTF16 (sizes)"
    /\ input = <<>>
    /\ buffer = <<>>
    /\ calls = <<>>
    /\ size_bits \in SizeWidths
    /\ input_size \in InputSizes8At(size_bits)
    /\ out_size \in OutputSizes16At(input_size, size_bits)
    /\ le_arg \in BOOLEAN
    /\ Start

\* ConvertUTF8ToUTF16 up to the assignment of its output iterator
ConvertUTF8ToUTF16_Sizes ==
    /\ fn = "ConvertUTF8ToUTF16 (sizes)"
    /\ pc = "call"
    /\ IF input_size = 0 THEN Return(ReturnTrue(0))
       ELSE IF OutputTooSmall16At(out_size, input_size, size_bits)
       THEN Return(ReturnFalse)
       ELSE pc' = "loop" /\ UNCHANGED result
    /\ UNCHANGED <<calls, buffer, size_bits, input_size, fn, input, out_size,
                   le_arg, little_endian, pos, expected_utf8_remaining,
                   wide_character, out>>

NextSizesUTF8 == ConvertUTF8ToUTF16_Sizes

\* the calls of ConvertUTF8ToUTF16 given by their sizes
SpecSizesUTF8 == InitSizesUTF8 /\ [][NextSizesUTF8]_vars

\* the call has passed the size test and goes on to write
PassedSizeTest == fn = "ConvertUTF8ToUTF16 (sizes)" /\ pc = "loop"

\* C30: the product in.size() * 2 of the size test of ConvertUTF8ToUTF16,
\* taken in a size type of w bits, never wraps: for every input size the
\* size type holds, a call never passes the test, and so never writes, with
\* an output span smaller than twice the input.
C30_CapacityTestNeverWraps ==
    PassedSizeTest
    => /\ (input_size * 2) % Pow2(size_bits) = input_size * 2
       /\ out_size >= input_size * 2

\* what holds of the test: it is exact for the input sizes below 2^(w - 1)
C30_CapacityTestBelowHalf ==
    (PassedSizeTest /\ input_size < Pow2(size_bits - 1))
    => /\ (input_size * 2) % Pow2(size_bits) = input_size * 2
       /\ out_size >= input_size * 2

\* an input of 2^(w - 1) octets has passed the test with an output span of
\* no octet
C30_PassedWithEmptyOutput ==
    /\ PassedSizeTest
    /\ size_bits = 16
    /\ input_size = 32768
    /\ out_size = 0

===========================================================================
